---- MODULE Spec2Model ----
(***************************************************************************)
(* A model of Gallery_GUI.py: the ThumbnailCache class and the             *)
(* filter / paginate / mark / select state machine of ImageGallery.        *)
(*                                                                         *)
(* Five specifications share the module.  SpecCache drives ThumbnailCache  *)
(* with arbitrary get / put / purge_unused calls while a clock advances.   *)
(* Spec drives the ImageGallery event handlers over a small table.         *)
(* SpecIO adds the save and export handlers, SpecRender follows the cache  *)
(* through the renders of page turns, and SpecFilter applies the numeric   *)
(* filter to values outside the sliders' range.                            *)
(* Times are integers; slider values and numeric columns are scaled by 100 *)
(* (the slider resolution is 0.01).  Strings that are searched are         *)
(* sequences of one-character strings.                                     *)
(***************************************************************************)
EXTENDS Integers, Sequences, FiniteSets, TLC

VARIABLES
    \* ---- ThumbnailCache ----
    cache,            \* OrderedDict: sequence of [path, t], oldest first
    now,              \* the value time.time() returns
    touched,          \* history: [path, t] of the last get hit or put of each
                      \* path ever put, least recently touched first
    clast,            \* history: the last cache call, [op, arg]
    purged,           \* history: purge_unused has been called
    \* ---- ImageGallery ----
    df,               \* the table: row identity -> row
    filtered_df,      \* sequence of row identities (column "index")
    page,
    marked_page,
    selected_index,
    numeric_filters,  \* [mn, mx] of the one numeric column
    category_filters, \* value of the one category combobox
    dir_search_var,
    file_search_var,
    hide_marked_var,
    same_name_var,
    last,             \* history: the last handler, [op, from]; from is the page
                      \* index it found (marked_page for the marked tab's
                      \* Prev / Next, page for every other handler)
    \* ---- what the window shows ----
    gallery_grid,     \* thumb_frame: cell <<r, c>> -> identity of the row whose
                      \* label (bound to _select_row) is gridded there, or NoRow
    marked_grid,      \* marked_thumb_frame, likewise
    count_label,      \* the numbers x, y of the text "Filtered: x / y"
    mark_btn,         \* state of mark_btn; open_btn is configured with it
    \* ---- the file system ----
    images,           \* the paths Image.open can decode
    io                \* history: the dialogs and the file output of the last
                      \* handler, [op, box, wrote]

cvars == <<cache, now, touched, clast, purged>>
gvars == <<df, filtered_df, page, marked_page, selected_index, numeric_filters,
           category_filters, dir_search_var, file_search_var, hide_marked_var,
           same_name_var, last>>
dvars == <<gallery_grid, marked_grid, count_label, mark_btn>>
vars == <<cvars, gvars, dvars, images, io>>

Min(a, b) == IF a < b THEN a ELSE b
Max(a, b) == IF a > b THEN a ELSE b

(***************************************************************************)
(* ThumbnailCache                                                          *)
(***************************************************************************)
\* bounds of the cache model
CacheCap == 2          \* max_size handed to the constructor
NumPaths == 3          \* distinct paths used as keys
MaxTime  == 2          \* the clock stops advancing here
MaxAge   == 1          \* purge_unused is called with max_age in 0..MaxAge

Paths == 1..NumPaths

Keys(c) == {c[i].path : i \in DOMAIN c}
Without(c, path) == SelectSeq(c, LAMBDA e : e.path # path)
Entry(c, path) == CHOOSE e \in {c[i] : i \in DOMAIN c} : e.path = path

\* OrderedDict.move_to_end(path)
move_to_end(c, path) == Without(c, path) \o <<Entry(c, path)>>

\* ThumbnailCache.get: the cache after the call (a hit moves the entry to the
\* end and leaves its timestamp alone; a miss changes nothing)
get_NoMove(c, path) == c
get(c, path) == IF path \in Keys(c) THEN move_to_end(c, path) ELSE c

\* ThumbnailCache._cleanup
RECURSIVE _cleanup(_, _)
_cleanup(c, max_size) ==
    IF Len(c) > max_size THEN _cleanup(Tail(c), max_size) ELSE c

\* ThumbnailCache.put at time t
\* self.cache[path] = (image, t) keeps the position of a key that is present,
\* appends a new one; move_to_end then puts it last either way.
setitem(c, path, t) ==
    IF path \in Keys(c)
    THEN [i \in DOMAIN c |-> IF c[i].path = path THEN [path |-> path, t |-> t] ELSE c[i]]
    ELSE Append(c, [path |-> path, t |-> t])
put(c, path, t, max_size) == _cleanup(move_to_end(setitem(c, path, t), path), max_size)

\* ThumbnailCache.purge_unused at time t
RECURSIVE DropFirst(_, _, _)
DropFirst(c, t, max_age) ==
    IF c = <<>> THEN c
    ELSE IF t - Head(c).t > max_age THEN Tail(c)
    ELSE <<Head(c)>> \o DropFirst(Tail(c), t, max_age)
purge_FirstOnly(c, t, max_age) == DropFirst(c, t, max_age)
purge_unused(c, t, max_age) == SelectSeq(c, LAMBDA e : ~(t - e.t > max_age))

\* history of touches
Touch(h, path, t) == Without(h, path) \o <<[path |-> path, t |-> t]>>
LastTouch(path) == Entry(touched, path).t
\* the n most recently touched paths
MostRecent(n) ==
    {touched[i].path : i \in {j \in DOMAIN touched : j > Len(touched) - n}}

CacheGet(path) ==
    /\ cache' = get(cache, path)
    /\ touched' = IF path \in Keys(cache) THEN Touch(touched, path, now) ELSE touched
    /\ clast' = [op |-> "get", arg |-> path]
    /\ UNCHANGED <<now, purged>>

CachePut(path) ==
    /\ cache' = put(cache, path, now, CacheCap)
    /\ touched' = Touch(touched, path, now)
    /\ clast' = [op |-> "put", arg |-> path]
    /\ UNCHANGED <<now, purged>>

CachePurge(max_age) ==
    /\ cache' = purge_unused(cache, now, max_age)
    /\ clast' = [op |-> "purge_unused", arg |-> max_age]
    /\ purged' = TRUE
    /\ UNCHANGED <<now, touched>>

\* time passes between calls (the clock is taken not to run backwards)
Tick ==
    /\ now < MaxTime
    /\ now' = now + 1
    /\ clast' = [op |-> "tick", arg |-> 0]
    /\ UNCHANGED <<cache, touched, purged>>

CacheInit ==
    /\ cache = <<>>
    /\ now = 0
    /\ touched = <<>>
    /\ clast = [op |-> "init", arg |-> 0]
    /\ purged = FALSE

(***************************************************************************)
(* ImageGallery: the table                                                 *)
(***************************************************************************)
\* bounds of the gallery model.  The grid is scaled down from the program's
\* 4 x 5 so that a handful of rows fills several pages.
NumRows == 4
ROWS == 1
COLS == 2
IMAGES_PER_PAGE == ROWS * COLS

NoRow == -1                       \* selected_index is None
SliderFrom == 0                   \* tk.Scale from_=0, and mn's initial 0.0
SliderTo == 100                   \* tk.Scale to=1, and mx's initial 1.0

RowIds == 0..(NumRows - 1)
IdSeq == [k \in 1..NumRows |-> k - 1]

\* the settings of the filter controls that are explored: the defaults, and
\* one setting that restricts every control (the queries are stripped and
\* lower-cased before use; the upper slider stands at 0.5)
NoFilter ==
    [numeric |-> [mn |-> SliderFrom, mx |-> SliderTo], category |-> "All",
     dir |-> <<>>, file |-> <<>>]
SomeFilter ==
    [numeric |-> [mn |-> SliderFrom, mx |-> 50], category |-> "y",
     dir |-> <<" ", "D">>, file |-> <<"B">>]
FilterSettings == {NoFilter, SomeFilter}

\* the rows read by pd.read_csv; __marked__ comes from the file when it has
\* the column and is False everywhere otherwise
DirOf(i) == IF i < 3 THEN <<"D">> ELSE <<"e">>
FileOf(i) == IF i % 2 = 0 THEN <<"A", "b">> ELSE <<"b">>
CatOf(i) == IF i % 3 = 0 THEN "x" ELSE "y"
NumOf(i) == i * 25
Table(marks) ==
    [i \in RowIds |-> [dir |-> DirOf(i), file |-> FileOf(i), marked |-> i \in marks,
                       cat |-> CatOf(i), num |-> NumOf(i)]]

Range(s) == {s[i] : i \in DOMAIN s}
MarkedIds(d) == {i \in RowIds : d[i].marked}
\* self.df[self.df["__marked__"]].reset_index()
marked_df(d) == SelectSeq(IdSeq, LAMBDA i : d[i].marked)

(***************************************************************************)
(* str.lower, str.strip and substring containment                          *)
(***************************************************************************)
LowerChar(c) == CASE c = "A" -> "a" [] c = "B" -> "b" [] c = "D" -> "d" [] OTHER -> c
Lower(s) == [i \in DOMAIN s |-> LowerChar(s[i])]
RECURSIVE LStrip(_)
LStrip(s) == IF s # <<>> /\ Head(s) = " " THEN LStrip(Tail(s)) ELSE s
RECURSIVE RStrip(_)
RStrip(s) ==
    IF s # <<>> /\ s[Len(s)] = " " THEN RStrip(SubSeq(s, 1, Len(s) - 1)) ELSE s
Strip(s) == RStrip(LStrip(s))
Contains(s, q) ==
    \E i \in 0..(Len(s) - Len(q)) : SubSeq(s, i + 1, i + Len(q)) = q

(***************************************************************************)
(* Filtering and pagination                                                *)
(***************************************************************************)
CeilDiv(n, k) == (n + k - 1) \div k
max_page(view) == Max(0, CeilDiv(Len(view), IMAGES_PER_PAGE) - 1)
page_count(view) == Max(1, CeilDiv(Len(view), IMAGES_PER_PAGE))

\* the conjunction of predicates _apply_filters applies to row i of d, read
\* from the filter controls as they are now; hide is hide_marked_var.get()
RowPasses_ShowsMarked(d, i, hide) ==
    /\ d[i].num >= numeric_filters.mn /\ d[i].num <= numeric_filters.mx
    /\ category_filters # "All" => d[i].cat = category_filters
    /\ LET dir_q == Lower(Strip(dir_search_var))
       IN  dir_q # <<>> => Contains(Lower(d[i].dir), dir_q)
    /\ LET file_q == Lower(Strip(file_search_var))
       IN  file_q # <<>> => Contains(Lower(d[i].file), file_q)
RowPasses(d, i, hide) ==
    /\ d[i].num >= numeric_filters.mn /\ d[i].num <= numeric_filters.mx
    /\ category_filters # "All" => d[i].cat = category_filters
    /\ LET dir_q == Lower(Strip(dir_search_var))
       IN  dir_q # <<>> => Contains(Lower(d[i].dir), dir_q)
    /\ LET file_q == Lower(Strip(file_search_var))
       IN  file_q # <<>> => Contains(Lower(d[i].file), file_q)
    /\ hide => d[i].marked = FALSE

\* df.reset_index(): the identities of the rows that pass, in table order
FilterRows(d, hide) == SelectSeq(IdSeq, LAMBDA i : RowPasses(d, i, hide))

\* self.page = min(self.page, max_page); if reset_page: self.page = 0
ClampPage_NoClamp(p, view, reset_page) == IF reset_page THEN 0 ELSE p
ClampPage_AlwaysReset(p, view, reset_page) == 0
ClampPage(p, view, reset_page) ==
    IF reset_page THEN 0 ELSE Min(p, max_page(view))

\* df.iloc[start:start + IMAGES_PER_PAGE] of _render_page
PageSlice_FromRow(view, p) ==
    IF p >= Len(view) THEN <<>>
    ELSE SubSeq(view, p + 1, Min(Len(view), p + IMAGES_PER_PAGE))
PageSlice(view, p) ==
    LET start == p * IMAGES_PER_PAGE
    IN  IF start >= Len(view) THEN <<>>
        ELSE SubSeq(view, start + 1, Min(Len(view), start + IMAGES_PER_PAGE))

\* os.path.join(dir, file)
join(a, b) ==
    IF b # <<>> /\ Head(b) = "/" THEN b
    ELSE IF a = <<>> \/ a[Len(a)] = "/" THEN a \o b
    ELSE a \o <<"/">> \o b
PathOf(d, i) == join(d[i].dir, d[i].file)

\* the cache of the gallery holds more than a page (300 against 20 in the
\* program); purge_unused() runs with its default max_age
MAX_THUMB_CACHE == IMAGES_PER_PAGE + 1
DefaultMaxAge == MaxAge

Cells == (0..(ROWS - 1)) \X (0..(COLS - 1))
EmptyGrid == [cell \in Cells |-> NoRow]
CellOf(k) == <<k \div COLS, k % COLS>>

\* the loop of _render_page from the k-th row of the slice on: a cache hit
\* shows the cached thumbnail; a miss decodes the file, and either puts the
\* thumbnail into the cache and shows it, or skips the row
RECURSIVE RenderRows_StopsAtFailure(_, _, _, _, _, _, _)
RenderRows_StopsAtFailure(c, d, slice, k, t, imgs, grid) ==
    IF k > Len(slice) THEN [cache |-> c, grid |-> grid]
    ELSE LET path == PathOf(d, slice[k])
             shown == [grid EXCEPT ![CellOf(k - 1)] = slice[k]]
         IN  IF path \in Keys(c)
             THEN RenderRows_StopsAtFailure(get(c, path), d, slice, k + 1, t, imgs, shown)
             ELSE IF path \in imgs
             THEN RenderRows_StopsAtFailure(put(c, path, t, MAX_THUMB_CACHE), d, slice,
                                            k + 1, t, imgs, shown)
             ELSE [cache |-> c, grid |-> grid]
RECURSIVE RenderRows(_, _, _, _, _, _, _)
RenderRows(c, d, slice, k, t, imgs, grid) ==
    IF k > Len(slice) THEN [cache |-> c, grid |-> grid]
    ELSE LET path == PathOf(d, slice[k])
             shown == [grid EXCEPT ![CellOf(k - 1)] = slice[k]]
         IN  IF path \in Keys(c)
             THEN RenderRows(get(c, path), d, slice, k + 1, t, imgs, shown)
             ELSE IF path \in imgs
             THEN RenderRows(put(c, path, t, MAX_THUMB_CACHE), d, slice, k + 1, t,
                             imgs, shown)
             ELSE RenderRows(c, d, slice, k + 1, t, imgs, grid)

\* _render_page of page p of view at time t: the cache and the frame after it
_render_page(c, d, view, p, t, imgs) ==
    RenderRows(purge_unused(c, t, DefaultMaxAge), d, PageSlice(view, p), 1, t, imgs,
               EmptyGrid)

\* the rows whose labels the two frames hold, each bound to _select_row
Clickable == (Range(gallery_grid) \cup Range(marked_grid)) \ {NoRow}

_update_counts(view, d) == [x |-> Len(view), y |-> Cardinality(DOMAIN d)]
_update_info_LeavesEnabled(idx) == "normal"
_update_info(idx) == IF idx = NoRow THEN "disabled" ELSE "normal"

\* _apply_filters on table d (df after the caller's update)
_apply_filters(d, reset_page) ==
    LET view == FilterRows(d, hide_marked_var)
        p == ClampPage(page, view, reset_page)
        g == _render_page(cache, d, view, p, now, images)
        m == _render_page(g.cache, d, marked_df(d), marked_page, now, images)
    IN  /\ filtered_df' = view
        /\ page' = p
        /\ selected_index' = NoRow
        /\ gallery_grid' = g.grid
        /\ marked_grid' = m.grid
        /\ count_label' = _update_counts(view, d)
        /\ mark_btn' = _update_info(NoRow)

\* self.df[self.df["file"] == fname].reset_index()
SameNameRows_SelectedFirst(d, idx) ==
    <<idx>> \o SelectSeq(IdSeq, LAMBDA i : i # idx /\ d[i].file = d[idx].file)
SameNameRows(d, idx) == SelectSeq(IdSeq, LAMBDA i : d[i].file = d[idx].file)

\* history: handler name and the page index it found
Before(name, p) == [op |-> name, from |-> p]
controls == <<numeric_filters, category_filters, dir_search_var, file_search_var,
              hide_marked_var>>

(***************************************************************************)
(* ImageGallery: the event handlers                                        *)
(***************************************************************************)
\* "Apply filters" button
ApplyFilters ==
    /\ _apply_filters(df, TRUE)
    /\ last' = Before("apply_filters", page)
    /\ UNCHANGED <<df, marked_page, controls, same_name_var>>

\* a click on a thumbnail
SelectRow(idx) ==
    /\ idx \in Clickable
    /\ selected_index' = idx
    /\ mark_btn' = _update_info(idx)
    /\ last' = Before("select_row", page)
    /\ UNCHANGED <<df, filtered_df, page, marked_page, controls, same_name_var>>
    /\ UNCHANGED <<gallery_grid, marked_grid, count_label>>

\* "Show same filename" checkbutton: the variable flips, then the command runs
ToggleSameName ==
    /\ same_name_var' = ~same_name_var
    /\ IF ~same_name_var' \/ selected_index = NoRow
       THEN _apply_filters(df, TRUE)
       ELSE /\ filtered_df' = SameNameRows(df, selected_index)
            /\ page' = 0
            /\ gallery_grid' = _render_page(cache, df, filtered_df', 0, now, images).grid
            /\ UNCHANGED <<selected_index, marked_grid, count_label, mark_btn>>
    /\ last' = Before("toggle_same_name_filter", page)
    /\ UNCHANGED <<df, marked_page, controls>>

\* "Mark / Unmark" button, enabled only while a row is selected
toggled(d, idx) == [d EXCEPT ![idx].marked = ~@]
ToggleMark ==
    /\ mark_btn = "normal"
    /\ selected_index # NoRow
    /\ df' = toggled(df, selected_index)
    /\ _apply_filters(df', FALSE)
    /\ last' = Before("toggle_mark", page)
    /\ UNCHANGED <<marked_page, controls, same_name_var>>

\* "Mark all filtered" button
marked_all_PageOnly(d, view) ==
    [i \in RowIds |->
        IF i \in Range(PageSlice(view, page)) THEN [d[i] EXCEPT !.marked = TRUE] ELSE d[i]]
marked_all_Everything(d, view) == [i \in RowIds |-> [d[i] EXCEPT !.marked = TRUE]]
marked_all(d, view) ==
    [i \in RowIds |-> IF i \in Range(view) THEN [d[i] EXCEPT !.marked = TRUE] ELSE d[i]]
MarkAllFiltered ==
    /\ df' = marked_all(df, filtered_df)
    /\ _apply_filters(df', FALSE)
    /\ last' = Before("mark_all_filtered", page)
    /\ UNCHANGED <<marked_page, controls, same_name_var>>

\* "Clear marked" button
cleared(d) == [i \in RowIds |-> [d[i] EXCEPT !.marked = FALSE]]
ClearMarked ==
    /\ df' = cleared(df)
    /\ _apply_filters(df', FALSE)
    /\ last' = Before("clear_marked", page)
    /\ UNCHANGED <<marked_page, controls, same_name_var>>

\* pagination of the gallery tab
_next_page(p, view) == IF p < max_page(view) THEN p + 1 ELSE p
_prev_page(p) == IF p > 0 THEN p - 1 ELSE p
NextPage ==
    /\ page' = _next_page(page, filtered_df)
    /\ gallery_grid' = IF page' # page
                       THEN _render_page(cache, df, filtered_df, page', now, images).grid
                       ELSE gallery_grid
    /\ last' = Before("next_page", page)
    /\ UNCHANGED <<df, filtered_df, marked_page, selected_index, controls, same_name_var>>
    /\ UNCHANGED <<marked_grid, count_label, mark_btn>>
PrevPage ==
    /\ page' = _prev_page(page)
    /\ gallery_grid' = IF page' # page
                       THEN _render_page(cache, df, filtered_df, page', now, images).grid
                       ELSE gallery_grid
    /\ last' = Before("prev_page", page)
    /\ UNCHANGED <<df, filtered_df, marked_page, selected_index, controls, same_name_var>>
    /\ UNCHANGED <<marked_grid, count_label, mark_btn>>

\* pagination of the marked tab
_next_marked_page(p, d) ==
    IF (p + 1) * IMAGES_PER_PAGE < Cardinality(MarkedIds(d)) THEN p + 1 ELSE p
_prev_marked_page(p) == IF p > 0 THEN p - 1 ELSE p
NextMarkedPage ==
    /\ marked_page' = _next_marked_page(marked_page, df)
    /\ marked_grid' = IF marked_page' # marked_page
                      THEN _render_page(cache, df, marked_df(df), marked_page', now,
                                        images).grid
                      ELSE marked_grid
    /\ last' = Before("next_marked_page", marked_page)
    /\ UNCHANGED <<df, filtered_df, page, selected_index, controls, same_name_var>>
    /\ UNCHANGED <<gallery_grid, count_label, mark_btn>>
PrevMarkedPage ==
    /\ marked_page' = _prev_marked_page(marked_page)
    /\ marked_grid' = IF marked_page' # marked_page
                      THEN _render_page(cache, df, marked_df(df), marked_page', now,
                                        images).grid
                      ELSE marked_grid
    /\ last' = Before("prev_marked_page", marked_page)
    /\ UNCHANGED <<df, filtered_df, page, selected_index, controls, same_name_var>>
    /\ UNCHANGED <<gallery_grid, count_label, mark_btn>>

\* edits of the filter controls; none of them has a command, so nothing is
\* recomputed until a handler runs, and the edits made between two handlers
\* amount to one step that leaves the controls at a setting of FilterSettings
EditFilters(f) ==
    /\ numeric_filters' = f.numeric
    /\ category_filters' = f.category
    /\ dir_search_var' = f.dir
    /\ file_search_var' = f.file
    /\ UNCHANGED <<df, filtered_df, page, marked_page, selected_index, hide_marked_var,
                   same_name_var, last, dvars>>
SetHideMarked ==
    /\ hide_marked_var' = ~hide_marked_var
    /\ UNCHANGED <<df, filtered_df, page, marked_page, selected_index, numeric_filters,
                   category_filters, dir_search_var, file_search_var, same_name_var, last,
                   dvars>>

\* the state __init__ leaves when it has read table d: defaults of the
\* controls, then _apply_filters() on the empty cache (now and images are
\* set before)
ConstructedCache(d, t, imgs) == _render_page(<<>>, d, FilterRows(d, FALSE), 0, t, imgs).cache
Constructed(d) ==
    /\ df = d
    /\ numeric_filters = NoFilter.numeric
    /\ category_filters = NoFilter.category
    /\ dir_search_var = NoFilter.dir
    /\ file_search_var = NoFilter.file
    /\ hide_marked_var = FALSE
    /\ same_name_var = FALSE
    /\ filtered_df = FilterRows(df, FALSE)
    /\ page = 0
    /\ marked_page = 0
    /\ selected_index = NoRow
    /\ last = [op |-> "init", from |-> 0]
    /\ gallery_grid = _render_page(<<>>, df, filtered_df, 0, now, images).grid
    /\ marked_grid = _render_page(ConstructedCache(df, now, images), df, marked_df(df), 0,
                                  now, images).grid
    /\ count_label = _update_counts(filtered_df, df)
    /\ mark_btn = _update_info(NoRow)
GalleryInit == \E marks \in SUBSET RowIds : Constructed(Table(marks))

\* the image files: those of the rows of directory "e" named "b" are missing
\* or are not images
ImagesOnDisk == {PathOf(Table({}), i) : i \in RowIds} \ {join(<<"e">>, <<"b">>)}
\* io of a handler that shows no dialog and writes no file
NoFile == <<"no file">>
NoIO == [op |-> "none", result |-> "none", box |-> "none", wrote |-> NoFile]
\* the handlers below write no file and show no dialog; the thumbnail cache
\* and the clock are left to the specification
Quiet == /\ io' = NoIO
         /\ UNCHANGED images

(***************************************************************************)
(* ImageGallery: saving and exporting                                      *)
(***************************************************************************)
\* what a write that raised leaves of a CSV file
Garbled == <<"partial csv">>
\* the message box the try / except of the three handlers ends with
outcome_box_Silent(ok) == IF ok THEN "showinfo" ELSE "none"
outcome_box(ok) == IF ok THEN "showinfo" ELSE "showerror"
\* none of the three handlers assigns anything of the gallery or its cache
IOFrame == UNCHANGED <<cvars, df, filtered_df, page, marked_page, selected_index,
                       controls, same_name_var, dvars, images>>

\* "Save marks" button: askyesno, then df.to_csv(dataset_path).  left is what
\* a failed write leaves behind: nothing, or a partial file
_save_marks_to_csv(confirm, ok, left) ==
    /\ io' = IF ~confirm
             THEN [op |-> "save_marks_to_csv", result |-> "cancelled", box |-> "none",
                   wrote |-> NoFile]
             ELSE IF ok
             THEN [op |-> "save_marks_to_csv", result |-> "written",
                   box |-> outcome_box(TRUE), wrote |-> df]
             ELSE [op |-> "save_marks_to_csv", result |-> "failed",
                   box |-> outcome_box(FALSE), wrote |-> left]
    /\ last' = Before("save_marks_to_csv", page)
    /\ IOFrame

\* "Save as" button: asksaveasfilename, then df.to_csv(path)
_save_as_csv(chosen, ok, left) ==
    /\ io' = IF ~chosen
             THEN [op |-> "save_as_csv", result |-> "cancelled", box |-> "none",
                   wrote |-> NoFile]
             ELSE IF ok
             THEN [op |-> "save_as_csv", result |-> "written",
                   box |-> outcome_box(TRUE), wrote |-> df]
             ELSE [op |-> "save_as_csv", result |-> "failed",
                   box |-> outcome_box(FALSE), wrote |-> left]
    /\ last' = Before("save_as_csv", page)
    /\ IOFrame

\* the lines _export_marked_txt writes: os.path.join(dir, file) of every row
\* of df[df["__marked__"]], in the order of iterrows
export_lines_AllRows(d) == [k \in 1..NumRows |-> PathOf(d, IdSeq[k])]
export_lines(d) == [k \in 1..Len(marked_df(d)) |-> PathOf(d, marked_df(d)[k])]

\* "Export marked" button.  A write that fails has opened (and so emptied)
\* the file and written the first n lines, or (n < 0) could not open it
_export_marked_txt(chosen, ok, n) ==
    /\ io' = IF marked_df(df) = <<>>
             THEN [op |-> "export_marked_txt", result |-> "refused", box |-> "showinfo",
                   wrote |-> NoFile]
             ELSE IF ~chosen
             THEN [op |-> "export_marked_txt", result |-> "cancelled", box |-> "none",
                   wrote |-> NoFile]
             ELSE IF ok
             THEN [op |-> "export_marked_txt", result |-> "written",
                   box |-> outcome_box(TRUE), wrote |-> export_lines(df)]
             ELSE [op |-> "export_marked_txt", result |-> "failed",
                   box |-> outcome_box(FALSE),
                   wrote |-> IF n < 0 THEN NoFile
                             ELSE SubSeq(export_lines(df), 1, Min(n, Len(marked_df(df))))]
    /\ last' = Before("export_marked_txt", page)
    /\ IOFrame

(***************************************************************************)
(* Specifications                                                          *)
(***************************************************************************)
\* ThumbnailCache under arbitrary calls; the gallery stays as constructed
InitCache == CacheInit /\ images = ImagesOnDisk /\ io = NoIO /\ Constructed(Table({}))
NextCache ==
    \/ \E path \in Paths : CacheGet(path) /\ UNCHANGED <<gvars, dvars, images, io>>
    \/ \E path \in Paths : CachePut(path) /\ UNCHANGED <<gvars, dvars, images, io>>
    \/ \E max_age \in 0..MaxAge : CachePurge(max_age) /\ UNCHANGED <<gvars, dvars, images, io>>
    \/ Tick /\ UNCHANGED <<gvars, dvars, images, io>>
SpecCache == InitCache /\ [][NextCache]_vars

\* ImageGallery under arbitrary user actions.  The handlers' rendering also
\* purges and fills the thumbnail cache; nothing of df, filtered_df, the page
\* indices, the selection or the controls is computed from the cache, and
\* with image files that do not change a cached thumbnail is shown exactly
\* where a decode would succeed, so this specification follows the gallery
\* state alone and leaves the cache as constructed (SpecRender follows it).
Init == CacheInit /\ images = ImagesOnDisk /\ io = NoIO /\ GalleryInit
Next ==
    \/ ApplyFilters /\ Quiet /\ UNCHANGED cvars
    \/ \E idx \in RowIds : SelectRow(idx) /\ Quiet /\ UNCHANGED cvars
    \/ ToggleSameName /\ Quiet /\ UNCHANGED cvars
    \/ ToggleMark /\ Quiet /\ UNCHANGED cvars
    \/ MarkAllFiltered /\ Quiet /\ UNCHANGED cvars
    \/ ClearMarked /\ Quiet /\ UNCHANGED cvars
    \/ NextPage /\ Quiet /\ UNCHANGED cvars
    \/ PrevPage /\ Quiet /\ UNCHANGED cvars
    \/ NextMarkedPage /\ Quiet /\ UNCHANGED cvars
    \/ PrevMarkedPage /\ Quiet /\ UNCHANGED cvars
    \/ \E f \in FilterSettings : EditFilters(f) /\ Quiet /\ UNCHANGED cvars
    \/ SetHideMarked /\ Quiet /\ UNCHANGED cvars
Spec == Init /\ [][Next]_vars

\* The page turns of the gallery tab with the thumbnail cache they fill and
\* purge, while time passes and image files come and go.
AllPaths == {PathOf(Table({}), i) : i \in RowIds}
InitRender ==
    /\ now = 0
    /\ touched = <<>>
    /\ clast = [op |-> "init", arg |-> 0]
    /\ purged = FALSE
    /\ images = ImagesOnDisk
    /\ io = NoIO
    /\ Constructed(Table({}))
    /\ cache = _render_page(ConstructedCache(df, now, images), df, marked_df(df), 0, now,
                            images).cache
\* the cache after the _render_gallery of a page turn that moved
GalleryRendered ==
    /\ cache' = IF page' # page
                THEN _render_page(cache, df, filtered_df, page', now, images).cache
                ELSE cache
    /\ UNCHANGED <<now, touched, clast, purged>>
ImageChanges(path) ==
    /\ images' = IF path \in images THEN images \ {path} ELSE images \cup {path}
    /\ UNCHANGED <<cvars, gvars, dvars, io>>
NextRender ==
    \/ NextPage /\ Quiet /\ GalleryRendered
    \/ PrevPage /\ Quiet /\ GalleryRendered
    \/ \E idx \in RowIds : SelectRow(idx) /\ Quiet /\ UNCHANGED cvars
    \/ Tick /\ UNCHANGED <<gvars, dvars, images, io>>
    \/ \E path \in AllPaths : ImageChanges(path)
SpecRender == InitRender /\ [][NextRender]_vars

\* Apply filters over the settings of the two sliders, on a table whose
\* numeric column is not confined to the sliders' range 0..1.
WideTable(marks) ==
    [i \in RowIds |-> [Table(marks)[i] EXCEPT !.num = 2 * NumOf(i) - 25]]
SliderStops == {SliderFrom, (SliderFrom + SliderTo) \div 2, SliderTo}
SliderSettings ==
    {[NoFilter EXCEPT !.numeric = [mn |-> a, mx |-> b]] : a, b \in SliderStops}
InitFilter ==
    /\ CacheInit
    /\ images = ImagesOnDisk
    /\ io = NoIO
    /\ \E marks \in SUBSET RowIds : Constructed(WideTable(marks))
NextFilter ==
    \/ \E f \in SliderSettings : EditFilters(f) /\ Quiet /\ UNCHANGED cvars
    \/ SetHideMarked /\ Quiet /\ UNCHANGED cvars
    \/ ApplyFilters /\ Quiet /\ UNCHANGED cvars
SpecFilter == InitFilter /\ [][NextFilter]_vars

\* The save and export handlers among the handlers that select and mark rows.
\* They read df and assign nothing, so Spec above goes without them.
NextIO ==
    \/ \E idx \in RowIds : SelectRow(idx) /\ Quiet /\ UNCHANGED cvars
    \/ ToggleMark /\ Quiet /\ UNCHANGED cvars
    \/ MarkAllFiltered /\ Quiet /\ UNCHANGED cvars
    \/ ClearMarked /\ Quiet /\ UNCHANGED cvars
    \/ NextMarkedPage /\ Quiet /\ UNCHANGED cvars
    \/ \E confirm, ok \in BOOLEAN, left \in {NoFile, Garbled} :
           _save_marks_to_csv(confirm, ok, left)
    \/ \E chosen, ok \in BOOLEAN, left \in {NoFile, Garbled} :
           _save_as_csv(chosen, ok, left)
    \/ \E chosen, ok \in BOOLEAN, n \in -1..NumRows :
           _export_marked_txt(chosen, ok, n)
SpecIO == Init /\ [][NextIO]_vars

(***************************************************************************)
(* Properties of ThumbnailCache (checked under SpecCache)                  *)
(***************************************************************************)
TouchedPaths == Keys(touched)

\* C1: with no purge so far and at least max_size distinct paths put, the
\* cache holds exactly max_size entries, and they are the max_size paths most
\* recently touched (get hit or put); the timestamps do not enter.
CacheHoldsMostRecent ==
    (~purged /\ Cardinality(TouchedPaths) >= CacheCap) =>
        /\ Len(cache) = CacheCap
        /\ Keys(cache) = MostRecent(CacheCap)

\* a get hit has saved an entry: it survives with a timestamp older than the
\* last touch of a path that was evicted
CacheEvictedNewerTimestamp ==
    /\ ~purged
    /\ Cardinality(TouchedPaths) > CacheCap
    /\ \E i \in DOMAIN cache : \E p \in TouchedPaths \ Keys(cache) :
           cache[i].t < LastTouch(p)

\* C2: purge_unused(max_age) keeps every entry whose last get hit or put is
\* at most max_age old.
PurgeKeepsRecentlyTouched ==
    [][\A max_age \in 0..MaxAge :
          CachePurge(max_age) =>
              \A p \in Keys(cache) :
                  now - LastTouch(p) <= max_age => p \in Keys(cache')]_vars

\* C3: after purge_unused(max_age) no entry is left whose last get hit or put
\* is more than max_age old.
PurgeLeavesNoIdleEntry ==
    clast.op = "purge_unused" =>
        \A p \in Keys(cache) : now - LastTouch(p) <= clast.arg

\* a purge that removed an idle entry and kept a fresh one (no capacity
\* eviction can have removed it: no more than max_size paths were ever put)
PurgeRemovedIdleKeptFresh ==
    /\ clast.op = "purge_unused"
    /\ Cardinality(TouchedPaths) <= CacheCap
    /\ cache # <<>>
    /\ \E p \in TouchedPaths \ Keys(cache) : now - LastTouch(p) > clast.arg

(***************************************************************************)
(* Properties of ImageGallery (checked under Spec)                         *)
(***************************************************************************)
\* C4: the marked view's page index is in range:
\* 0 <= marked_page <= max(1, ceil(marked_count / page_size)) - 1.
MarkedPageInRange ==
    /\ 0 <= marked_page
    /\ marked_page <= page_count(marked_df(df)) - 1

\* C5: the main view's page index is in range:
\* 0 <= page <= max(1, ceil(len(FilteredView) / page_size)) - 1.
PageInRange ==
    /\ 0 <= page
    /\ page <= page_count(filtered_df) - 1

\* Apply filters on the last page of the unfiltered view shrank the view to
\* a single page
FilterShrankViewFromLastPage ==
    /\ last.op = "apply_filters"
    /\ last.from > 0
    /\ last.from = max_page(IdSeq)
    /\ filtered_df # <<>>
    /\ page_count(filtered_df) = 1
    /\ page = 0

\* C6: toggling the mark of the selected row leaves the selection on it.
ToggleMarkKeepsSelection ==
    [][ToggleMark => selected_index' = selected_index]_vars

\* C7: toggling the mark of the selected row leaves the main view's page
\* index as it was.
ToggleMarkKeepsPage ==
    last.op = "toggle_mark" => page = last.from

\* C7 as amended: toggling the mark leaves the page index at the smaller of
\* its old value and the last page of the recomputed view.
ToggleMarkClampsPage ==
    last.op = "toggle_mark" => page = Min(last.from, page_count(filtered_df) - 1)

\* with hide-marked on, marking the only row of the last page moved the page
\* index to the page before it, which is now the last
ToggleMarkClampedToLastPage ==
    /\ last.op = "toggle_mark"
    /\ hide_marked_var
    /\ filtered_df # <<>>
    /\ last.from = page + 1
    /\ page = page_count(filtered_df) - 1

\* same-filename mode has just been enabled on the selected row (the other
\* branch of the handler clears the selection)
SameNameModeEntered ==
    /\ last.op = "toggle_same_name_filter"
    /\ same_name_var
    /\ selected_index # NoRow

\* C8: once same-filename mode is enabled on the selected row, no mark action
\* or page change that leaves the mode on replaces the view: it stays the
\* rows sharing that row's filename.
SameNameViewStays ==
    [][(/\ SameNameModeEntered
        /\ \/ ToggleMark
           \/ MarkAllFiltered
           \/ ClearMarked
           \/ NextPage
           \/ PrevPage
           \/ NextMarkedPage
           \/ PrevMarkedPage
        /\ same_name_var')
       => filtered_df' = SameNameRows(df', selected_index)]_vars

\* C9: after Mark all filtered, re-filtering with hide-marked enabled gives an
\* empty view, whatever the view was.
MarkAllThenHideIsEmpty ==
    [][MarkAllFiltered => FilterRows(df', TRUE) = <<>>]_vars

\* the view is what the filter controls select as they stand
ViewIsCurrent == filtered_df \in {FilterRows(df, TRUE), FilterRows(df, FALSE)}

\* C9 as amended: when the view is the one the filter controls select as they
\* stand (with hide-marked on or off), Mark all filtered followed by
\* re-filtering with hide-marked enabled gives an empty view; with hide-marked
\* on, the handler's own refresh already leaves the view empty.
MarkAllCurrentThenHideIsEmpty ==
    [][(MarkAllFiltered /\ ViewIsCurrent) =>
          /\ FilterRows(df', TRUE) = <<>>
          /\ hide_marked_var => filtered_df' = <<>>]_vars

\* Mark all filtered has marked exactly the rows a restricting filter selects,
\* and its refresh with hide-marked on left the view empty
MarkAllHidEveryMatch ==
    /\ last.op = "mark_all_filtered"
    /\ hide_marked_var
    /\ category_filters # "All"
    /\ MarkedIds(df) = Range(FilterRows(df, FALSE))
    /\ MarkedIds(df) # {}
    /\ filtered_df = <<>>

\* C10: Prev and Next of both tabs never wrap: Prev at page 0 and Next at the
\* last page (page_count - 1) change nothing, otherwise the index moves by
\* exactly one and stays in range; marks, view, selection and the other tab's
\* index are left alone.
NavMovesByOne ==
    [][/\ NextPage =>
            /\ page' = IF page = page_count(filtered_df) - 1 THEN page ELSE page + 1
            /\ page' <= page_count(filtered_df) - 1
            /\ UNCHANGED <<df, filtered_df, selected_index, marked_page>>
       /\ PrevPage =>
            /\ page' = IF page = 0 THEN page ELSE page - 1
            /\ page' <= page_count(filtered_df) - 1
            /\ UNCHANGED <<df, filtered_df, selected_index, marked_page>>
       /\ NextMarkedPage =>
            /\ marked_page' =
                 IF marked_page = page_count(marked_df(df)) - 1
                 THEN marked_page ELSE marked_page + 1
            /\ marked_page' <= page_count(marked_df(df)) - 1
            /\ UNCHANGED <<df, filtered_df, selected_index, page>>
       /\ PrevMarkedPage =>
            /\ marked_page' = IF marked_page = 0 THEN marked_page ELSE marked_page - 1
            /\ marked_page' <= page_count(marked_df(df)) - 1
            /\ UNCHANGED <<df, filtered_df, selected_index, page>>]_vars

\* C11: the view is a subsequence of the table in table order: its members
\* are row identities of the table, in strictly increasing load order (so
\* none is repeated).
ViewIsSubsequenceOfTable ==
    /\ \A k \in DOMAIN filtered_df : filtered_df[k] \in DOMAIN df
    /\ \A j, k \in DOMAIN filtered_df : j < k => filtered_df[j] < filtered_df[k]

\* same-filename mode was enabled on a row that is not the first of its name,
\* and the view holds several but not all rows
SameNameViewOfLaterRow ==
    /\ SameNameModeEntered
    /\ Len(filtered_df) > 1
    /\ Len(filtered_df) < NumRows
    /\ selected_index # filtered_df[1]
    /\ selected_index \in Range(filtered_df)

\* C13: Mark all filtered marks every row of the view and leaves the flag of
\* every other row alone; Clear marked unmarks every row; neither changes
\* which rows the table has, their order, or any other column.
SameRowsBut(d, e) ==
    /\ DOMAIN e = DOMAIN d
    /\ \A i \in DOMAIN d : [e[i] EXCEPT !.marked = d[i].marked] = d[i]
MarkBatchesTouchOnlyFlags ==
    [][/\ MarkAllFiltered =>
            /\ SameRowsBut(df, df')
            /\ \A i \in RowIds :
                   df'[i].marked = (i \in Range(filtered_df) \/ df[i].marked)
       /\ ClearMarked =>
            /\ SameRowsBut(df, df')
            /\ \A i \in RowIds : df'[i].marked = FALSE]_vars

\* Mark all filtered ran on a view that left rows out, and a row outside it
\* is still unmarked
MarkAllLeftOutsideUnmarked ==
    /\ last.op = "mark_all_filtered"
    /\ MarkedIds(df) # {}
    /\ MarkedIds(df) # RowIds
    /\ ~hide_marked_var
    /\ Range(filtered_df) # RowIds

\* C15: after every handler each grid shows the current slice of its view:
\* the k-th row of FilteredView[page * page_size : (page + 1) * page_size]
\* is in row k div COLS, column k mod COLS when its image decodes, that cell
\* is empty when it does not, and the cells past the slice are empty; the
\* marked grid shows the slice of the marked rows at marked_page likewise.
SliceGrid(view, p) ==
    [cell \in Cells |->
        LET k == p * IMAGES_PER_PAGE + cell[1] * COLS + cell[2] + 1
        IN  IF k <= Len(view) /\ PathOf(df, view[k]) \in images THEN view[k] ELSE NoRow]
NoMarkedRowInView(d, view) == Range(view) \cap MarkedIds(d) = {}
HideMarkedSurvivesHandlers ==
    [][(/\ hide_marked_var
        /\ filtered_df = FilterRows(df, TRUE)
        /\ ToggleMark \/ MarkAllFiltered \/ ClearMarked \/ ToggleSameName)
       => NoMarkedRowInView(df', filtered_df')]_vars

\* C16 as amended: with hide-marked on, every handler that runs
\* _apply_filters (Apply filters, the three mark handlers, and the
\* same-filename toggle when it disables the mode or no row is selected)
\* leaves a view without marked rows, and the view and the marks then stay
\* as they are until the next handler that recomputes the view.
RunsApplyFilters ==
    \/ ApplyFilters \/ ToggleMark \/ MarkAllFiltered \/ ClearMarked
    \/ ToggleSameName /\ (same_name_var \/ selected_index = NoRow)
HideMarkedSurvivesRefilter ==
    [][/\ (hide_marked_var /\ RunsApplyFilters)
            => NoMarkedRowInView(df', filtered_df')
       /\ (RunsApplyFilters \/ ToggleSameName) \/ UNCHANGED <<df, filtered_df>>]_vars

\* with hide-marked on, Mark / Unmark took the row it marked out of a view
\* that still shows other rows
MarkedRowLeftHiddenView ==
    /\ last.op = "toggle_mark"
    /\ hide_marked_var
    /\ MarkedIds(df) # {}
    /\ filtered_df # <<>>
    /\ filtered_df = FilterRows(df, TRUE)

\* C17: after every handler that recomputes the view (Apply filters, the
\* three mark handlers, the same-filename toggle either way) no row is
\* selected and the Open and Mark / Unmark buttons are disabled.
RecomputedView ==
    last.op \in {"apply_filters", "toggle_mark", "mark_all_filtered", "clear_marked",
                 "toggle_same_name_filter"}
NothingSelected == selected_index = NoRow /\ mark_btn = "disabled"
RecomputeClearsSelection == RecomputedView => NothingSelected

\* C17 as amended: the same holds after every handler that runs
\* _apply_filters; enabling same-filename mode on a selected row keeps that
\* row selected, leaves the buttons enabled and shows the row in the view.
ApplyFiltersClearsSelection ==
    /\ (RecomputedView /\ ~SameNameModeEntered) => NothingSelected
    /\ SameNameModeEntered =>
           /\ selected_index \in Range(filtered_df)
           /\ mark_btn = "normal"

\* Mark / Unmark, which needs a selected row, has run and left none selected
MarkToggleClearedSelection ==
    /\ last.op = "toggle_mark"
    /\ NothingSelected
    /\ MarkedIds(df) # {}

\* C20: the count label reads "Filtered: x / y" with x the length of the
\* current view and y the number of rows of the table.
CountLabelIsCurrent ==
    /\ count_label.x = Len(filtered_df)
    /\ count_label.y = NumRows

(***************************************************************************)
(* Properties of saving and exporting (checked under SpecIO)               *)
(***************************************************************************)
\* C12: Export marked writes one line "dir/file" per marked row, in table
\* order, and none for an unmarked row; with no row marked it shows a notice,
\* writes no file and changes nothing of the table, the cache, the views,
\* the pages and the selection.
MarkedPathsInTableOrder ==
    LET rows == SelectSeq(IdSeq, LAMBDA i : i \in MarkedIds(df))
    IN  [k \in DOMAIN rows |-> df[rows[k]].dir \o <<"/">> \o df[rows[k]].file]
ExportWritesMarkedPaths ==
    /\ [](io.op = "export_marked_txt" =>
            /\ io.result = "written" => io.wrote = MarkedPathsInTableOrder
            /\ io.result = "refused" <=> MarkedIds(df) = {}
            /\ io.result = "refused" => io.box = "showinfo" /\ io.wrote = NoFile)
    /\ [][io'.result = "refused" =>
            UNCHANGED <<df, cache, filtered_df, page, marked_page, selected_index>>]_vars

\* an export that wrote the paths of several rows and left unmarked rows out
ExportedSomeRowsOnly ==
    /\ io.op = "export_marked_txt"
    /\ io.result = "written"
    /\ Len(io.wrote) > 1
    /\ Len(io.wrote) < NumRows

\* C14: a write that fails in Save marks, Save as or Export marked ends in an
\* error box and changes nothing of the table, the cache, the view, the two
\* page indices and the selection; the thumbnails' click bindings and the
\* state of the buttons are as before, so the same actions are accepted.
WriteFailureLeavesStateAlone ==
    [][io'.result = "failed" =>
          /\ io'.box = "showerror"
          /\ UNCHANGED <<df, cache, filtered_df, page, marked_page, selected_index>>
          /\ UNCHANGED <<gallery_grid, marked_grid, mark_btn>>]_vars

\* an export failed after its first line, with a row selected and some but
\* not all rows marked
ExportFailedMidway ==
    /\ io.op = "export_marked_txt"
    /\ io.result = "failed"
    /\ io.wrote # NoFile
    /\ Len(io.wrote) = 1
    /\ Cardinality(MarkedIds(df)) > 1
    /\ selected_index # NoRow

(***************************************************************************)
(* Properties of rendering with the cache (checked under SpecRender)       *)
(***************************************************************************)
\* C18: when a page is rendered, a row whose thumbnail is not cached and
\* whose image fails to decode leaves its cell empty; every other row of the
\* page has its label, bound to its own identity, in row (k div COLS), column
\* (k mod COLS); no dialog is shown; and the cache gains an entry for exactly
\* the paths that missed and decoded, none for a path that failed.
PageTurned == last'.op \in {"next_page", "prev_page"} /\ page' # page
Entries(c) == {c[i] : i \in DOMAIN c}
AtFullExtent == numeric_filters.mn = SliderFrom /\ numeric_filters.mx = SliderTo
NumericRestrictsOnlyOffExtent ==
    [][ApplyFilters =>
          \A i \in RowIds :
              i \in Range(filtered_df') <=>
                  /\ AtFullExtent \/ (numeric_filters.mn <= df[i].num
                                      /\ df[i].num <= numeric_filters.mx)
                  /\ hide_marked_var => ~df[i].marked]_vars

====
